---- MODULE Spec2Model ----
(***************************************************************************)
(* sourcelynk: header sniffing (src/src/magic.rs) and the per-file         *)
(* pipeline of main (src/src/main.rs): candidate filter, debug-symbol      *)
(* parse, repository resolution, URL mapping and embedding.                *)
(***************************************************************************)
EXTENDS Integers, Sequences, FiniteSets, TLC

(***************************************************************************)
(* Bytes and headers.  A header is the 32-byte buffer `buf` of file_type,  *)
(* a tuple of 32 bytes; At(buf, i) is buf[i] of the source, which indexes  *)
(* from 0.                                                                 *)
(***************************************************************************)
MaxByte == 255
HeaderLen == 32
Byte == 0..MaxByte
At(buf, i) == buf[i + 1]

\* b"crosoft C/C++ MSF 7.00\r\n\x1a\x44\x53", the 27 bytes compared at buf[2..29]
PdbLiteral ==
  << 99, 114, 111, 115, 111, 102, 116, 32, 67, 47, 67, 43, 43, 32,
     77, 83, 70, 32, 55, 46, 48, 48, 13, 10, 26, 68, 83 >>

\* ---- the enums of magic.rs --------------------------------------------
\* impl From<u8> for ElfEndianess
ElfEndianess(num) ==
  CASE num = 1 -> "Little"
    [] num = 2 -> "Big"
    [] OTHER   -> "Unknown"

\* impl From<u16> for ElfType
ElfType(num) ==
  CASE num = 0 -> "None"
    [] num = 1 -> "Rel"
    [] num = 2 -> "Exec"
    [] num = 3 -> "Dyn"
    [] num = 4 -> "Core"
    [] OTHER   -> "Unknown"

\* enum FileType; kind is "-" for every variant but Elf
FtUnknown == [tag |-> "Unknown", kind |-> "-"]
FtPdb     == [tag |-> "Pdb", kind |-> "-"]
FtPE      == [tag |-> "PE", kind |-> "-"]
FtMachO   == [tag |-> "MachO", kind |-> "-"]
FtElf(k)  == [tag |-> "Elf", kind |-> k]

\* ((upper_byte as u16) << 8) | (lower_byte as u16): the shift is taken in
\* 16 bits, and the or of two values with disjoint bits is their sum
U16Of(upper_byte, lower_byte) == ((upper_byte * 256) % 65536) + lower_byte

\* &buf[a..b] == lit, lit a tuple of b-a bytes
SliceEq(buf, a, lit) == \A i \in 1..Len(lit) : At(buf, a + i - 1) = lit[i]

\* a plausible slip: the Big arm reads the type bytes in the Little order
ElfBytes_NoSwap(buf, endianness) == << At(buf, 16), At(buf, 17) >>

\* (lower_byte, upper_byte) of the match on endianness
ElfBytes(buf, endianness) ==
  IF endianness = "Little" THEN << At(buf, 16), At(buf, 17) >>
  ELSE << At(buf, 17), At(buf, 16) >>

\* a plausible slip: the signature comparison stops one byte short (buf[2..28])
PdbMatch_Short(buf) == SliceEq(buf, 2, SubSeq(PdbLiteral, 1, 26))

\* &buf[2..29] == b"crosoft C/C++ MSF 7.00\r\n\x1a\x44\x53"
PdbMatch(buf) == SliceEq(buf, 2, PdbLiteral)

\* the match on buf[0] of file_type
ClassifyBuf(buf) ==
  CASE At(buf, 0) = 127 ->
         IF SliceEq(buf, 1, << 69, 76, 70 >>)
         THEN LET endianness == ElfEndianess(At(buf, 5)) IN
              IF endianness = "Unknown" THEN FtUnknown
              ELSE LET lu == ElfBytes(buf, endianness) IN
                   FtElf(ElfType(U16Of(lu[2], lu[1])))
         ELSE FtUnknown
    [] At(buf, 0) = 77 ->
         CASE At(buf, 1) = 90  -> FtPE
           [] At(buf, 1) = 105 -> IF PdbMatch(buf) THEN FtPdb ELSE FtUnknown
           [] OTHER        -> FtUnknown
    [] At(buf, 0) = 254 ->
         IF SliceEq(buf, 1, << 237, 250, 206 >>) \/ SliceEq(buf, 1, << 237, 250, 207 >>)
         THEN FtMachO ELSE FtUnknown
    [] At(buf, 0) \in {206, 207} ->
         IF SliceEq(buf, 1, << 250, 237, 254 >>) THEN FtMachO ELSE FtUnknown
    [] OTHER -> FtUnknown

\* a file as file_type sees it: its length, its first 32 bytes (read only
\* when len >= 32) and whether metadata()/read_exact succeed
IoErr == [tag |-> "Err", kind |-> "-"]

\* pub fn file_type(file: &mut File) -> Result<FileType>
file_type(file) ==
  IF ~file.readOK THEN IoErr
  ELSE IF file.len < HeaderLen THEN FtUnknown
  ELSE ClassifyBuf(file.buf)


(***************************************************************************)
(* Text.  A string is a sequence of tokens ("." is always a token of its   *)
(* own), so that ends_with, split('.') and format! are computed on it.     *)
(***************************************************************************)
EndsWith(t, suffix) ==
  /\ Len(t) >= Len(suffix)
  /\ SubSeq(t, Len(t) - Len(suffix) + 1, Len(t)) = suffix

\* domain.split('.').next().unwrap()
FirstLabel(domain) ==
  LET dots == {i \in 1..Len(domain) : domain[i] = "."} IN
  IF dots = {} THEN domain
  ELSE SubSeq(domain, 1, (CHOOSE i \in dots : \A m \in dots : i <= m) - 1)

GithubCom == << "github", ".", "com" >>
VisualStudioCom == << "visualstudio", ".", "com" >>
NoText == << >>

(***************************************************************************)
(* The version-control world: the working trees the source files of a      *)
(* binary can lie in, each as git2 reports it.                             *)
(*   bare    workdir() is None                                             *)
(*   head    the Oid head() resolves to, NoText when head() fails          *)
(*   remote  find_remote("origin"), remote.url() and Url::parse:           *)
(*           kind "NotFound" | "Error" | "NoUrl" | "Unparseable" | "Url";  *)
(*           of a "Url", domain is Url::domain() (NoText when the host is  *)
(*           no domain) and segs is Url::path_segments()                   *)
(***************************************************************************)
Remote(kind) == [kind |-> kind, domain |-> NoText, segs |-> << >>]
RemoteUrl(domain, segs) == [kind |-> "Url", domain |-> domain, segs |-> segs]

WidgetsGit == << "widgets", ".", "git" >>

Catalogue ==
  << \* https://github.com/acme/widgets.git
     [workdir |-> << "/src/widgets" >>, bare |-> FALSE, head |-> << "abc123" >>,
      remote |-> RemoteUrl(GithubCom, << << "acme" >>, WidgetsGit >>)],
     \* https://contoso.visualstudio.com/DefaultCollection/proj/_git/gadgets
     [workdir |-> << "/src/gadgets" >>, bare |-> FALSE, head |-> << "def456" >>,
      remote |-> RemoteUrl(<< "contoso", "." >> \o VisualStudioCom,
                           << << "DefaultCollection" >>, << "proj" >>,
                              << "_git" >>, << "gadgets" >> >>)],
     \* https://gitlab.example.com/acme/widgets.git
     [workdir |-> << "/src/lab" >>, bare |-> FALSE, head |-> << "abc123" >>,
      remote |-> RemoteUrl(<< "gitlab", ".", "example", ".", "com" >>,
                           << << "acme" >>, WidgetsGit >>)],
     \* https://github.com/acme
     [workdir |-> << "/src/short" >>, bare |-> FALSE, head |-> << "abc123" >>,
      remote |-> RemoteUrl(GithubCom, << << "acme" >> >>)],
     \* https://contoso.visualstudio.com/proj/_git/widgets
     [workdir |-> << "/src/azshort" >>, bare |-> FALSE, head |-> << "def456" >>,
      remote |-> RemoteUrl(<< "contoso", "." >> \o VisualStudioCom,
                           << << "proj" >>, << "_git" >>, << "widgets" >> >>)],
     \* no remote named origin
     [workdir |-> << "/src/local" >>, bare |-> FALSE, head |-> << "abc123" >>,
      remote |-> Remote("NotFound")],
     \* git@github.com:acme/widgets.git, which Url::parse rejects
     [workdir |-> << "/src/scp" >>, bare |-> FALSE, head |-> << "abc123" >>,
      remote |-> Remote("Unparseable")],
     \* find_remote fails with an error other than NotFound
     [workdir |-> << "/src/broken" >>, bare |-> FALSE, head |-> << "abc123" >>,
      remote |-> Remote("Error")],
     \* https://192.0.2.7/acme/widgets.git: the host is no domain
     [workdir |-> << "/src/ip" >>, bare |-> FALSE, head |-> << "abc123" >>,
      remote |-> RemoteUrl(NoText, << << "acme" >>, WidgetsGit >>)],
     \* a freshly initialised tree: head() fails
     [workdir |-> << "/src/fresh" >>, bare |-> FALSE, head |-> NoText,
      remote |-> RemoteUrl(GithubCom, << << "acme" >>, WidgetsGit >>)],
     \* a bare repository: workdir() is None
     [workdir |-> NoText, bare |-> TRUE, head |-> << "abc123" >>,
      remote |-> RemoteUrl(GithubCom, << << "acme" >>, WidgetsGit >>)] >>

TreeIds == 1..Len(Catalogue)

\* a compiledfiles::FileInfo as the resolver sees it: whether path.is_file(),
\* what Repository::discover(path) gives ("Ok" with a tree of the catalogue,
\* "NotFound" or "Error") and whether the tree object at head holds its
\* relative path
SourceFile(is_file, found, tree, tracked) ==
  [is_file |-> is_file, found |-> found, tree |-> tree, tracked |-> tracked]

HasHead(t) == Catalogue[t].head # NoText

SourceFiles ==
  {SourceFile(FALSE, "NotFound", 0, FALSE),
   SourceFile(TRUE, "NotFound", 0, FALSE),
   SourceFile(TRUE, "Error", 0, FALSE)}
    \cup {SourceFile(TRUE, "Ok", t, FALSE) : t \in TreeIds}
    \cup {SourceFile(TRUE, "Ok", t, TRUE) :
            t \in {u \in TreeIds : HasHead(u) /\ ~Catalogue[u].bare}}

(***************************************************************************)
(* RepositoryResolver: repos_from_source_files.  repos is the Vec of       *)
(* git2::Repository, each entry a tree of the catalogue.                   *)
(***************************************************************************)
\* fn repo_from_source_file: Some(repo) only when discover succeeds
repo_from_source_file(f) == IF f.found = "Ok" THEN f.tree ELSE 0

\* a plausible slip: the entries are compared as objects, and a Repository
\* just discovered is never one of those already kept
Known_ByIdentity(repos, t) == FALSE

\* repos.iter().any(|x| x.workdir().unwrap() == repo.workdir().unwrap())
Known(repos, t) ==
  \E i \in 1..Len(repos) : Catalogue[repos[i]].workdir = Catalogue[t].workdir

\* a plausible slip: the tree is pushed without looking the path up at head
TrackedAtHead_Always(f) == TRUE

\* repo.head().unwrap().peel_to_tree().unwrap().get_path(&rel_path).is_ok()
TrackedAtHead(f) == f.tracked

\* one iteration of the for loop; panic names the unwrap that failed
ResolveOne(repos, f) ==
  IF ~f.is_file THEN [panic |-> "", repos |-> repos]
  ELSE LET t == repo_from_source_file(f) IN
    IF t = 0 THEN [panic |-> "", repos |-> repos]
    ELSE IF Catalogue[t].bare THEN [panic |-> "workdir", repos |-> repos]
    ELSE IF Known(repos, t) THEN [panic |-> "", repos |-> repos]
    ELSE IF ~HasHead(t) THEN [panic |-> "head", repos |-> repos]
    ELSE IF TrackedAtHead(f) THEN [panic |-> "", repos |-> Append(repos, t)]
    ELSE [panic |-> "", repos |-> repos]

(***************************************************************************)
(* RemoteUrlMapper: generate_mapping and the provider generators.          *)
(***************************************************************************)
UrlPanic == [kind |-> "Panic", url |-> NoText]
UrlNone  == [kind |-> "None", url |-> NoText]
UrlSome(u) == [kind |-> "Some", url |-> u]

\* fn generate_github_url: components[0] and components[1] are indexed
\* without a length check
generate_github_url(url, hash) ==
  IF Len(url.segs) < 2 THEN UrlPanic
  ELSE UrlSome(<< "https://api.github.com/repos/" >> \o url.segs[1] \o << "/" >>
                 \o url.segs[2] \o << "/contents/*?ref=" >> \o hash)

\* fn generate_azure_devops_url: components[1] and components[3]
generate_azure_devops_url(url, hash) ==
  IF Len(url.segs) < 4 THEN UrlPanic
  ELSE UrlSome(<< "https://dev.azure.com/" >> \o FirstLabel(url.domain) \o << "/" >>
                 \o url.segs[2] \o << "/_apis/git/repositories/" >> \o url.segs[4]
                 \o << "/items?versionDescriptor.versionType=commit&versionDescriptor.version=" >>
                 \o hash \o << "&api-version=5.1&path=/*" >>)

\* a plausible slip: an unknown domain falls through to the GitHub generator
generate_url_Fallthrough(url, hash) ==
  IF url.domain = NoText THEN UrlNone
  ELSE IF EndsWith(url.domain, VisualStudioCom) THEN generate_azure_devops_url(url, hash)
  ELSE generate_github_url(url, hash)

\* fn generate_url
generate_url(url, hash) ==
  IF url.domain # NoText
  THEN IF url.domain = GithubCom THEN generate_github_url(url, hash)
       ELSE IF EndsWith(url.domain, VisualStudioCom)
            THEN generate_azure_devops_url(url, hash)
       ELSE UrlNone
  ELSE UrlNone

EmptyMap == [x \in {} |-> NoText]

\* HashMap::insert
Insert(m, key, val) == [x \in DOMAIN m \cup {key} |-> IF x = key THEN val ELSE m[x]]

\* workdir.join("*")
JoinStar(workdir) == workdir \o << "/*" >>

\* one iteration of the for loop of generate_mapping over repository t
MapOne(m, t) ==
  LET repo == Catalogue[t] IN
  IF repo.remote.kind # "Url" THEN [panic |-> "", map |-> m]
  ELSE IF ~HasHead(t) THEN [panic |-> "head", map |-> m]
  ELSE LET r == generate_url(repo.remote, repo.head) IN
    CASE r.kind = "Some"  -> [panic |-> "", map |-> Insert(m, JoinStar(repo.workdir), r.url)]
      [] r.kind = "None"  -> [panic |-> "", map |-> m]
      [] r.kind = "Panic" -> [panic |-> "generate_url", map |-> m]


(***************************************************************************)
(* Pipeline controller: main.                                              *)
(***************************************************************************)
\* a directory entry: whether File::open succeeds, and the file behind it
Entry(openOK, readOK, len, buf) ==
  [openOK |-> openOK, readOK |-> readOK, len |-> len, buf |-> buf]

\* a plausible slip: relocatable objects are let through as well
Allowed_WithRel(ft) ==
  ft \in {FtElf("Exec"), FtElf("Dyn"), FtElf("Rel"), FtPdb}

\* the first arm of the match of is_possible_symbol_file
Allowed(ft) == ft \in {FtElf("Exec"), FtElf("Dyn"), FtPdb}

\* fn is_possible_symbol_file: file_type(..).unwrap_or(FileType::Unknown)
is_possible_symbol_file(entry) ==
  IF ~entry.openOK THEN FALSE
  ELSE LET r == file_type(entry)
           ft == IF r = IoErr THEN FtUnknown ELSE r
       IN Allowed(ft)

\* what the embedding block meets: "tempfile_err" (NamedTempFile::new or keep
\* fails), "spawn_err" (objcopy cannot be launched), "exit_failure" (objcopy
\* exits non-zero), "rename_err" (fs::rename fails), "ok"
EmbedEnvs == {"tempfile_err", "spawn_err", "exit_failure", "rename_err", "ok"}

Outcome(pcn, target, objcopy, printed, panic) ==
  [pc |-> pcn, target |-> target, objcopy |-> objcopy, printed |-> printed,
   panic |-> panic]

\* a plausible slip: the output is renamed over the original whatever the
\* exit status of objcopy
EmbedResult_NoStatusCheck(mapping, dry, env) ==
  IF DOMAIN mapping = {} THEN Outcome("walk", "original", "notrun", FALSE, "")
  ELSE IF dry THEN Outcome("walk", "original", "notrun", TRUE, "")
  ELSE CASE env = "tempfile_err" -> Outcome("panic", "original", "notrun", FALSE, "tempfile")
         [] env = "spawn_err"    -> Outcome("panic", "original", "spawn_err", FALSE, "objcopy")
         [] env = "exit_failure" -> Outcome("walk", "replaced", "failure", FALSE, "")
         [] env = "rename_err"   -> Outcome("panic", "original", "success", FALSE, "rename")
         [] env = "ok"           -> Outcome("walk", "replaced", "success", FALSE, "")

\* the block `if !mapping.is_empty() { ... }` of main
EmbedResult(mapping, dry, env) ==
  IF DOMAIN mapping = {} THEN Outcome("walk", "original", "notrun", FALSE, "")
  ELSE IF dry THEN Outcome("walk", "original", "notrun", TRUE, "")
  ELSE CASE env = "tempfile_err" -> Outcome("panic", "original", "notrun", FALSE, "tempfile")
         [] env = "spawn_err"    -> Outcome("panic", "original", "spawn_err", FALSE, "objcopy")
         [] env = "exit_failure" -> Outcome("walk", "original", "failure", FALSE, "")
         [] env = "rename_err"   -> Outcome("panic", "original", "success", FALSE, "rename")
         [] env = "ok"           -> Outcome("walk", "replaced", "success", FALSE, "")

(***************************************************************************)
(* Inputs.                                                                 *)
(***************************************************************************)
NumFiles == 2
MaxSources == 2

\* a header starting 0x7F 'E' 'L' 'F' with byte 5 = e and bytes (16,17) = (x,y)
ElfHeader(e, x, y) ==
  [n \in 1..HeaderLen |->
     LET i == n - 1 IN
     CASE i = 0 -> 127 [] i = 1 -> 69 [] i = 2 -> 76 [] i = 3 -> 70
       [] i = 5 -> e [] i = 16 -> x [] i = 17 -> y [] OTHER -> 0]

\* 'M' 'i', the signature, then bytes 29..31 = tail
PdbHeader(tail) ==
  [n \in 1..HeaderLen |->
     LET i == n - 1 IN
     CASE i = 0 -> 77 [] i = 1 -> 105
       [] i \in 2..28 -> PdbLiteral[i - 1]
       [] OTHER -> tail[i - 28]]

\* a header with the given first four bytes and zeros after them
MagicHeader(m) == [n \in 1..HeaderLen |-> IF n <= 4 THEN m[n] ELSE 0]

OtherHeaders ==
  {MagicHeader(<< 77, 90, 144, 0 >>),       \* MZ
   MagicHeader(<< 77, 0, 0, 0 >>),
   MagicHeader(<< 254, 237, 250, 206 >>), MagicHeader(<< 254, 237, 250, 207 >>),
   MagicHeader(<< 206, 250, 237, 254 >>), MagicHeader(<< 207, 250, 237, 254 >>),
   MagicHeader(<< 254, 237, 250, 0 >>), MagicHeader(<< 206, 250, 0, 0 >>),
   MagicHeader(<< 127, 69, 76, 0 >>),
   MagicHeader(<< 0, 0, 0, 0 >>)}

TailBytes == {0, 83, 255}

\* the entries the directory walk can yield
Entries ==
  {Entry(TRUE, TRUE, 64, ElfHeader(e, x, 0)) : e \in {0, 1, 2}, x \in 0..5}
    \cup {Entry(TRUE, TRUE, 64, ElfHeader(1, 2, 1)),
          Entry(TRUE, TRUE, 64, PdbHeader(<< 0, 0, 0 >>)),
          Entry(TRUE, TRUE, 64, [PdbHeader(<< 0, 0, 0 >>) EXCEPT ![29] = 0]),
          Entry(FALSE, TRUE, 64, ElfHeader(1, 2, 0)),
          Entry(TRUE, FALSE, 64, ElfHeader(1, 2, 0)),
          Entry(TRUE, TRUE, 31, ElfHeader(1, 2, 0))}
    \cup {Entry(TRUE, TRUE, 64, h) : h \in OtherHeaders}

\* what compiledfiles::parse returns: an error, or the list of source files
ParseErrors == {"MissingDebugSymbols", "UnrecognizedFileFormat", "Other"}
SourceLists == UNION {[1..n -> SourceFiles] : n \in 0..MaxSources}

FtPending == [tag |-> "Pending", kind |-> "-"]
NoEntry == Entry(FALSE, FALSE, 0, << >>)

VARIABLES
  file,          \* the entry at hand (the file the sniffer is applied to)
  ftype,         \* what file_type returned for it
  pc,            \* position in main
  idx,           \* entries the walk has yielded
  dryrun,        \* matches.is_present("dryrun")
  source_files,  \* the parser's list
  k,             \* position of the resolver loop in source_files
  repos,         \* the resolver's Vec
  j,             \* position of the mapping loop in repos
  map,           \* the mapping under construction
  target,        \* the binary of the entry on disk: "original" | "replaced"
  objcopy,       \* "notrun" | "spawn_err" | "failure" | "success"
  printed,       \* the would-be document was printed
  panicAt,       \* the unwrap that aborted the process, "" if none
  parser_input   \* the entry last handed to compiledfiles::parse

vars == << file, ftype, pc, idx, dryrun, source_files, k, repos, j, map,
           target, objcopy, printed, panicAt, parser_input >>

locals == << source_files, k, repos, j, map >>
outcome == << target, objcopy, printed >>

NoLocals ==
  /\ source_files' = << >>
  /\ k' = 1
  /\ repos' = << >>
  /\ j' = 1
  /\ map' = EmptyMap

Init ==
  /\ file = NoEntry
  /\ ftype = FtPending
  /\ pc = "walk"
  /\ idx = 0
  /\ dryrun \in BOOLEAN
  /\ source_files = << >>
  /\ k = 1
  /\ repos = << >>
  /\ j = 1
  /\ map = EmptyMap
  /\ target = "original"
  /\ objcopy = "notrun"
  /\ printed = FALSE
  /\ panicAt = ""
  /\ parser_input = NoEntry

\* the walk yields an entry and the filter is applied to it
NextEntry ==
  /\ pc = "walk"
  /\ idx < NumFiles
  /\ \E e \in Entries :
       /\ file' = e
       /\ ftype' = IF e.openOK THEN file_type(e) ELSE FtPending
       /\ pc' = IF is_possible_symbol_file(e) THEN "open" ELSE "walk"
  /\ idx' = idx + 1
  /\ target' = "original"
  /\ objcopy' = "notrun"
  /\ printed' = FALSE
  /\ UNCHANGED << dryrun, locals, panicAt, parser_input >>

\* the walk is exhausted: main returns Ok(())
WalkEnd ==
  /\ pc = "walk"
  /\ pc' = "done"
  /\ UNCHANGED << file, ftype, idx, dryrun, locals, outcome, panicAt, parser_input >>

\* File::open(&entry).unwrap()
Reopen ==
  /\ pc = "open"
  /\ \E ok \in BOOLEAN :
       /\ pc' = IF ok THEN "parse" ELSE "panic"
       /\ panicAt' = IF ok THEN "" ELSE "open"
  /\ UNCHANGED << file, ftype, idx, dryrun, locals, outcome, parser_input >>

\* compiledfiles::parse(file) and the checks on its result
Parse ==
  /\ pc = "parse"
  /\ \/ \E e \in ParseErrors : pc' = "walk" /\ NoLocals
     \/ \E l \in SourceLists :
          IF l = << >> THEN pc' = "walk" /\ NoLocals
          ELSE /\ pc' = "resolve"
               /\ source_files' = l
               /\ UNCHANGED << k, repos, j, map >>
  /\ parser_input' = file
  /\ UNCHANGED << file, ftype, idx, dryrun, outcome, panicAt >>

\* one iteration of the loop of repos_from_source_files
ResolveStep ==
  /\ pc = "resolve"
  /\ k <= Len(source_files)
  /\ LET r == ResolveOne(repos, source_files[k]) IN
       /\ repos' = r.repos
       /\ panicAt' = r.panic
       /\ pc' = IF r.panic = "" THEN "resolve" ELSE "panic"
       /\ k' = IF r.panic = "" THEN k + 1 ELSE k
  /\ UNCHANGED << file, ftype, idx, dryrun, source_files, j, map, outcome, parser_input >>

\* repos_from_source_files returns; generate_mapping starts
ResolveEnd ==
  /\ pc = "resolve"
  /\ k > Len(source_files)
  /\ pc' = "map"
  /\ UNCHANGED << file, ftype, idx, dryrun, locals, outcome, panicAt, parser_input >>

\* one iteration of the loop of generate_mapping
MapStep ==
  /\ pc = "map"
  /\ j <= Len(repos)
  /\ LET r == MapOne(map, repos[j]) IN
       /\ map' = r.map
       /\ panicAt' = r.panic
       /\ pc' = IF r.panic = "" THEN "map" ELSE "panic"
       /\ j' = IF r.panic = "" THEN j + 1 ELSE j
  /\ UNCHANGED << file, ftype, idx, dryrun, source_files, k, repos, outcome, parser_input >>

\* generate_mapping returns
MapEnd ==
  /\ pc = "map"
  /\ j > Len(repos)
  /\ pc' = "embed"
  /\ UNCHANGED << file, ftype, idx, dryrun, locals, outcome, panicAt, parser_input >>

\* print the document, or run objcopy and replace the binary
Embed ==
  /\ pc = "embed"
  /\ \E env \in EmbedEnvs :
       LET o == EmbedResult(map, dryrun, env) IN
         /\ pc' = o.pc
         /\ target' = o.target
         /\ objcopy' = o.objcopy
         /\ printed' = o.printed
         /\ panicAt' = o.panic
         /\ IF o.pc = "walk" THEN NoLocals ELSE UNCHANGED locals
  /\ UNCHANGED << file, ftype, idx, dryrun, parser_input >>

Next ==
  \/ NextEntry
  \/ WalkEnd
  \/ Reopen
  \/ Parse
  \/ ResolveStep
  \/ ResolveEnd
  \/ MapStep
  \/ MapEnd
  \/ Embed

Spec == Init /\ [][Next]_vars


(***************************************************************************)
(* The sniffer alone: file_type applied to one file.                       *)
(***************************************************************************)
\* header h with byte p set to v
Alter(h, p, v) == [h EXCEPT ![p + 1] = v]

\* the files the sniffer is applied to: every ELF header with a known
\* endianness byte and any pair of type bytes, ELF headers with an unknown
\* one, the PDB header with any one of its bytes 0..28 altered and with other
\* tails, headers of the other formats, short and unreadable files
SniffFile(f) ==
  \/ \E e \in {1, 2}, x \in Byte, y \in Byte :
       f = Entry(TRUE, TRUE, HeaderLen, ElfHeader(e, x, y))
  \/ \E e \in {0, 3, MaxByte}, x \in {0, 2}, y \in {0, 2} :
       f = Entry(TRUE, TRUE, HeaderLen, ElfHeader(e, x, y))
  \/ \E p \in 0..28, v \in Byte :
       f = Entry(TRUE, TRUE, HeaderLen, Alter(PdbHeader(<< 0, 0, 0 >>), p, v))
  \/ \E a \in TailBytes, b \in TailBytes, c \in TailBytes :
       f = Entry(TRUE, TRUE, HeaderLen, PdbHeader(<< a, b, c >>))
  \/ \E h \in OtherHeaders : f = Entry(TRUE, TRUE, HeaderLen, h)
  \/ \E ok \in BOOLEAN, len \in {0, HeaderLen - 1, HeaderLen + 1},
        h \in {ElfHeader(1, 2, 0), PdbHeader(<< 0, 0, 0 >>)} :
       f = Entry(TRUE, ok, len, h)

SniffInit ==
  /\ SniffFile(file)
  /\ ftype = FtPending
  /\ pc = "sniff"
  /\ idx = 0
  /\ dryrun = FALSE
  /\ source_files = << >>
  /\ k = 1
  /\ repos = << >>
  /\ j = 1
  /\ map = EmptyMap
  /\ target = "original"
  /\ objcopy = "notrun"
  /\ printed = FALSE
  /\ panicAt = ""
  /\ parser_input = NoEntry

\* file_type(file)
Classify ==
  /\ pc = "sniff"
  /\ ftype' = file_type(file)
  /\ pc' = "sniffed"
  /\ UNCHANGED << file, idx, dryrun, locals, outcome, panicAt, parser_input >>

SniffNext == Classify

SniffSpec == SniffInit /\ [][SniffNext]_vars


(***************************************************************************)
(* Properties.                                                             *)
(***************************************************************************)
Workdir(t) == Catalogue[t].workdir

\* C1: the parser is handed a file only if the file could be opened and its
\* header was read and classified ELF(Executable), ELF(SharedObject) or
\* ProgramDatabase; an entry of any other classification, or one that cannot
\* be opened or read, is never the parser's input.
C1_AllowList ==
  parser_input # NoEntry =>
    /\ parser_input.openOK
    /\ parser_input.readOK
    /\ file_type(parser_input) \in
         {[tag |-> "Elf", kind |-> "Exec"], [tag |-> "Elf", kind |-> "Dyn"],
          [tag |-> "Pdb", kind |-> "-"]}

C1_Witness ==
  /\ pc = "resolve"
  /\ parser_input = file
  /\ ftype = FtElf("Dyn")

\* C2: at every point of the resolver loop and in its result, no two entries
\* of repos have the same working-tree root.
C2_NoDuplicateRoots ==
  \A a \in 1..Len(repos) : \A b \in 1..Len(repos) :
    a # b => Workdir(repos[a]) # Workdir(repos[b])

\* every source file of the list lies in one tree and is tracked there, and
\* the resolver has returned a single entry
C2_Witness ==
  /\ pc = "map"
  /\ Len(source_files) >= 2
  /\ \A i \in 1..Len(source_files) :
       /\ source_files[i].tracked
       /\ source_files[i].tree = source_files[1].tree
  /\ Len(repos) = 1

\* the trees that have an existing file tracked at head among the first n
\* source files
TrackedTrees(n) ==
  {source_files[i].tree : i \in {m \in 1..n : /\ source_files[m].is_file
                                               /\ source_files[m].found = "Ok"
                                               /\ source_files[m].tracked}}

\* C3: after each iteration of the resolver loop and in its result, the trees
\* of repos are exactly the trees in which some existing source file seen so
\* far is tracked at head: an untracked file never adds its tree, a tracked
\* sibling does, in either order.
C3_TrackedIff ==
  pc \in {"resolve", "map", "embed"} =>
    {repos[i] : i \in 1..Len(repos)} = TrackedTrees(k - 1)

\* an untracked file first, its tracked sibling second: the tree is included
C3_Witness ==
  /\ pc = "map"
  /\ Len(source_files) = 2
  /\ source_files[1].is_file /\ source_files[1].found = "Ok"
  /\ ~source_files[1].tracked
  /\ source_files[2].tracked
  /\ source_files[2].tree = source_files[1].tree
  /\ repos = << source_files[1].tree >>

\* C4: for a repository whose origin is https://github.com/{user}/{repo}.git
\* with head revision r, the finished mapping holds
\* {workdir}/* -> https://api.github.com/repos/{user}/{repo}/contents/*?ref={r}.
C4_GithubEntry ==
  pc = "embed" =>
    \A i \in 1..Len(repos) :
      \A user \in {<< "acme" >>} : \A repo \in {<< "widgets" >>} :
        Catalogue[repos[i]].remote
            = RemoteUrl(GithubCom, << user, repo \o << ".", "git" >> >>)
          => /\ (Workdir(repos[i]) \o << "/*" >>) \in DOMAIN map
             /\ map[Workdir(repos[i]) \o << "/*" >>]
                  = << "https://api.github.com/repos/" >> \o user \o << "/" >>
                      \o repo \o << "/contents/*?ref=" >>
                      \o Catalogue[repos[i]].head

\* the origin matches a provider but has fewer path segments than the
\* provider's generator reads
ShortOrigin(t) ==
  LET r == Catalogue[t].remote IN
  /\ r.kind = "Url"
  /\ \/ r.domain = GithubCom /\ Len(r.segs) < 2
     \/ r.domain # GithubCom /\ EndsWith(r.domain, VisualStudioCom) /\ Len(r.segs) < 4

\* C5: a repository whose origin matches a provider with too few path
\* segments is treated as unsupported: the mapping loop adds no entry for it,
\* does not crash and goes on to the next repository.
C5_ShortOriginSkipped ==
  [][(pc = "map" /\ j <= Len(repos) /\ ShortOrigin(repos[j]))
       => (pc' = "map" /\ j' = j + 1 /\ map' = map)]_vars

\* C6: no failure of a per-file step terminates the run.
C6_NoPerFileAbort == pc # "panic"

\* the origin has a URL and its domain is one of the two providers'
Supported(t) ==
  LET r == Catalogue[t].remote IN
  /\ r.kind = "Url"
  /\ r.domain = GithubCom \/ EndsWith(r.domain, VisualStudioCom)

UnsupportedDomain(t) ==
  LET r == Catalogue[t].remote IN
  r.kind = "Url" /\ r.domain # NoText /\ ~Supported(t)

\* C7: after each iteration of the mapping loop and in its result, the
\* mapping holds exactly one entry for each supported repository seen so far,
\* with that provider's URL, and none for a repository of another domain,
\* wherever it sits in repos.
C7_UnsupportedDomainSkipped ==
  pc \in {"map", "embed"} =>
    /\ DOMAIN map = {Workdir(repos[i]) \o << "/*" >> :
                       i \in {m \in 1..(j - 1) : Supported(repos[m])}}
    /\ \A i \in 1..(j - 1) :
         Supported(repos[i]) =>
           map[Workdir(repos[i]) \o << "/*" >>][1] =
             IF Catalogue[repos[i]].remote.domain = GithubCom
             THEN "https://api.github.com/repos/"
             ELSE "https://dev.azure.com/"

\* an unsupported repository first, a supported one after it
C7_Witness ==
  /\ pc = "embed"
  /\ Len(repos) = 2
  /\ UnsupportedDomain(repos[1])
  /\ Supported(repos[2])
  /\ DOMAIN map = {Workdir(repos[2]) \o << "/*" >>}

\* C8: the binary is replaced only by the embedding step of a run that is
\* not a preview, with a non-empty mapping, when objcopy reported success;
\* in preview mode objcopy is not run, the binary is untouched and the
\* document of a non-empty mapping is printed; with an empty mapping or a
\* failing objcopy the binary is untouched.
C8_ReplaceOnlyOnSuccess ==
  [][/\ (target = "original" /\ target' = "replaced") =>
          /\ pc = "embed" /\ ~dryrun /\ DOMAIN map # {}
          /\ objcopy' = "success"
     /\ (pc = "embed" /\ dryrun) =>
          /\ objcopy' = "notrun" /\ target' = target
          /\ printed' = (DOMAIN map # {})
     /\ (pc = "embed" /\ (DOMAIN map = {} \/ objcopy' = "failure")) =>
          target' = target]_vars

C8_Witness ==
  /\ target = "replaced"
  /\ objcopy = "success"
  /\ ~dryrun

\* the 16-bit type value decoded as the ELF header format defines it
C9_Kind(v) ==
  IF v = 0 THEN "None" ELSE IF v = 1 THEN "Relocatable"
  ELSE IF v = 2 THEN "Executable" ELSE IF v = 3 THEN "SharedObject"
  ELSE IF v = 4 THEN "Core" ELSE "Unknown"

C9_Name(kind) ==
  IF kind = "Rel" THEN "Relocatable" ELSE IF kind = "Exec" THEN "Executable"
  ELSE IF kind = "Dyn" THEN "SharedObject" ELSE kind

\* C9: a header of a file of length >= 32 that starts 0x7F 'E' 'L' 'F' with
\* byte 5 = 0x01 and bytes (16,17) = (x,y), and the one with byte 5 = 0x02 and
\* bytes (16,17) = (y,x), both classify ELF(kind) with kind decoded from
\* (y << 8) | x.
C9_EndianRoundTrip ==
  (/\ pc = "sniffed" /\ file.readOK /\ file.len >= 32
   /\ SliceEq(file.buf, 0, << 127, 69, 76, 70 >>)
   /\ At(file.buf, 5) \in {1, 2}) =>
    LET b == file.buf
        x == IF At(b, 5) = 1 THEN At(b, 16) ELSE At(b, 17)
        y == IF At(b, 5) = 1 THEN At(b, 17) ELSE At(b, 16)
        little == [file EXCEPT !.buf = Alter(Alter(Alter(b, 5, 1), 16, x), 17, y)]
        big == [file EXCEPT !.buf = Alter(Alter(Alter(b, 5, 2), 16, y), 17, x)]
    IN /\ ftype.tag = "Elf"
       /\ C9_Name(ftype.kind) = C9_Kind(y * 256 + x)
       /\ file_type(little) = ftype
       /\ file_type(big) = ftype

\* the big-endian half of the example: byte 5 = 0x02, bytes (16,17) = (0x00,0x02)
C9_Witness ==
  /\ pc = "sniffed"
  /\ file.buf = ElfHeader(2, 0, 2)
  /\ ftype = FtElf("Exec")

\* C10: a header of a file of length >= 32 that starts 'M' 'i' classifies
\* ProgramDatabase when bytes 2..28 equal the 27-byte signature, whatever
\* bytes 29..31 hold, and Unknown when exactly one byte of the signature
\* differs.
C10_PdbSignature ==
  (/\ pc = "sniffed" /\ file.readOK /\ file.len >= 32
   /\ At(file.buf, 0) = 77 /\ At(file.buf, 1) = 105) =>
    LET differ == {i \in 2..28 : At(file.buf, i) # PdbLiteral[i - 1]} IN
      /\ differ = {} => ftype = [tag |-> "Pdb", kind |-> "-"]
      /\ Cardinality(differ) = 1 => ftype = [tag |-> "Unknown", kind |-> "-"]

\* the last byte of the signature altered
C10_Witness ==
  /\ pc = "sniffed"
  /\ file.len >= 32
  /\ file.buf = Alter(PdbHeader(<< 0, 0, 0 >>), 28, 84)
  /\ ftype = FtUnknown

====
